---- MODULE Spec2Model ----
(***************************************************************************)
(* Model of the two scraper scripts of the repository:                     *)
(*   src/reddit_scraper_ready.py  RedditScraper and interactive_menu       *)
(*   src/toi_scraper.py           scrape_times_of_india, save_to_csv, main *)
(*                                                                         *)
(* Python values are encoded as follows.                                   *)
(*   None / a value   the empty sequence <<>> / the one-element <<v>>      *)
(*   a long text      a sequence of characters (small naturals)            *)
(*   a short string   a TLA+ string                                        *)
(*   a dict           a record; its key set is DOMAIN                      *)
(*   a list           a sequence                                           *)
(*   a raised exception: the name of its class, "none" when nothing raised *)
(***************************************************************************)
EXTENDS Integers, Sequences, FiniteSets, TLC

VARIABLES
    pc,      \* control location of the running script
    fs,      \* the file system: file name -> content, for the files that exist
    calls,   \* the query and writer invocations of the latest step, in order
    choice,  \* the menu choice of the latest step
    save_format,  \* the save format chosen in the latest step, "" when not asked
    connect,      \* whether praw.Reddit(...) was built: "pending", "ok", "failed"
    steps    \* menu iterations taken so far

vars == <<pc, fs, calls, choice, save_format, connect, steps>>

(***************************************************************************)
(* Bounds of the model.                                                    *)
(***************************************************************************)
MaxSteps == 1      \* menu iterations explored
MaxItems == 2      \* items a source listing holds in a menu run
MaxAnchors == 3    \* anchors on the scraped homepage
MaxRows == 2       \* records in a batch handed directly to a writer

Min(a, b) == IF a <= b THEN a ELSE b

(***************************************************************************)
(* Exceptions.  A handler `except H` catches an exception whose class is H *)
(* or derives from H.                                                      *)
(***************************************************************************)
NoExc == "none"

ExcParent(c) ==
    CASE c = "RequestException" -> "OSError"
      [] c = "KeyError"         -> "LookupError"
      [] OTHER                  -> "Exception"

RECURSIVE IsSubclass(_, _)
IsSubclass(c, h) ==
    IF c = h THEN TRUE
    ELSE IF c = "Exception" THEN FALSE
    ELSE IsSubclass(ExcParent(c), h)

\* Exception classes the external collaborators raise.
SourceExcs == {"PrawcoreException", "TypeError"}
HttpExcs == {"RequestException", "AttributeError"}
IoExcs == {"OSError"}

(***************************************************************************)
(* Texts and optional values.                                              *)
(***************************************************************************)
CharAt(i) == i % 7
Text(n) == [i \in 1..n |-> CharAt(i)]

None == <<>>
Some(v) == <<v>>
\* Python truthiness: None, '' and the empty text are falsy.
TruthyText(opt) == opt # None /\ Len(opt[1]) > 0
TruthyStr(opt) == opt # None /\ opt[1] # ""
\* `x or ''` on an optional string
OrEmpty(opt) == IF TruthyStr(opt) THEN opt[1] ELSE ""

\* text[-cap:], the end of the text instead of its start
SliceFromEnd(text, cap) ==
    SubSeq(text, Len(text) - Min(Len(text), cap) + 1, Len(text))

\* text[:cap]
SliceTo(text, cap) == SubSeq(text, 1, Min(Len(text), cap))

\* datetime.strftime: the formatted field keeps the format and the instant.
StrfTime(t, fmt) == [fmt |-> fmt, t |-> t]
DateTimeFmt == "%Y-%m-%d %H:%M:%S"
DateFmt == "%Y-%m-%d"

(***************************************************************************)
(* RedditScraper: normalisation of one raw item into a record.             *)
(***************************************************************************)
SelftextCap == 500
SearchSelftextCap == 300
UserSelftextCap == 300
DescriptionCap == 500

\* A raw submission as the client library hands it over.
Submission(id, author, selftext, flair, distinguished) ==
    [id |-> id, title |-> "title " \o id, author |-> author,
     subreddit |-> "a", score |-> 1, upvote_ratio |-> 1, num_comments |-> 2,
     created_utc |-> 100, url |-> "https://x/" \o id,
     permalink |-> "/r/a/comments/" \o id, is_self |-> TRUE,
     selftext |-> selftext, link_flair_text |-> flair,
     distinguished |-> distinguished, stickied |-> FALSE, spoiler |-> FALSE,
     over_18 |-> FALSE, gilded |-> 0, domain |-> "self.a"]

\* A raw comment; hasBody is hasattr(comment, 'body').
Comment(id, author, body, distinguished, hasBody) ==
    [id |-> id, author |-> author, body |-> body, score |-> 1,
     created_utc |-> 100, is_submitter |-> FALSE,
     distinguished |-> distinguished, gilded |-> 0,
     permalink |-> "/r/a/comments/c/" \o id, hasBody |-> hasBody]

\* str(author) applied without the test for an absent author.
AuthorOfUnguarded(raw) == IF raw.author # None THEN raw.author[1] ELSE "None"

AuthorOf(raw) == IF raw.author # None THEN raw.author[1] ELSE "[deleted]"

TruncatedSelftext(raw, cap) ==
    IF TruthyText(raw.selftext) THEN SliceTo(raw.selftext[1], cap) ELSE <<>>

\* post_data of get_subreddit_posts
PostData(s, now) ==
    [id |-> s.id, title |-> s.title, author |-> AuthorOf(s),
     subreddit |-> s.subreddit, score |-> s.score,
     upvote_ratio |-> s.upvote_ratio, num_comments |-> s.num_comments,
     created_utc |-> s.created_utc,
     created_datetime |-> StrfTime(s.created_utc, DateTimeFmt),
     url |-> s.url, permalink |-> "https://reddit.com" \o s.permalink,
     is_self |-> s.is_self,
     selftext |-> TruncatedSelftext(s, SelftextCap),
     flair |-> OrEmpty(s.link_flair_text),
     distinguished |-> OrEmpty(s.distinguished),
     stickied |-> s.stickied, spoiler |-> s.spoiler, nsfw |-> s.over_18,
     gilded |-> s.gilded, domain |-> s.domain,
     scraped_at |-> StrfTime(now, DateTimeFmt)]

\* comment_data of get_post_comments: the body is stored as it comes
CommentData(c, post_id, now) ==
    [comment_id |-> c.id, post_id |-> post_id, author |-> AuthorOf(c),
     body |-> c.body, score |-> c.score, created_utc |-> c.created_utc,
     created_datetime |-> StrfTime(c.created_utc, DateTimeFmt),
     is_submitter |-> c.is_submitter,
     distinguished |-> OrEmpty(c.distinguished), gilded |-> c.gilded,
     permalink |-> "https://reddit.com" \o c.permalink,
     scraped_at |-> StrfTime(now, DateTimeFmt)]

\* post_data of search_reddit
SearchPostData(s, query, now) ==
    [id |-> s.id, title |-> s.title, author |-> AuthorOf(s),
     subreddit |-> s.subreddit, score |-> s.score,
     num_comments |-> s.num_comments,
     created_datetime |-> StrfTime(s.created_utc, DateTimeFmt),
     url |-> s.url, permalink |-> "https://reddit.com" \o s.permalink,
     selftext |-> TruncatedSelftext(s, SearchSelftextCap),
     search_query |-> query, scraped_at |-> StrfTime(now, DateTimeFmt)]

\* post_data of get_user_posts: the author is the requested user name
UserPostData(s, username, now) ==
    [id |-> s.id, title |-> s.title, author |-> username,
     subreddit |-> s.subreddit, score |-> s.score,
     num_comments |-> s.num_comments,
     created_datetime |-> StrfTime(s.created_utc, DateTimeFmt),
     url |-> s.url, permalink |-> "https://reddit.com" \o s.permalink,
     selftext |-> TruncatedSelftext(s, UserSelftextCap),
     scraped_at |-> StrfTime(now, DateTimeFmt)]

\* A raw subreddit and the info record of get_subreddit_info
Subreddit(name, description) ==
    [display_name |-> name, title |-> "title " \o name,
     description |-> description, subscribers |-> 10,
     active_user_count |-> 1, created_utc |-> 50, over18 |-> FALSE,
     public_description |-> Text(3)]

SubredditInfo(sr, now) ==
    [name |-> sr.display_name, title |-> sr.title,
     description |-> SliceTo(sr.description, DescriptionCap),
     subscribers |-> sr.subscribers, active_users |-> sr.active_user_count,
     created_utc |-> sr.created_utc,
     created_datetime |-> StrfTime(sr.created_utc, DateFmt),
     over18 |-> sr.over18, public_description |-> sr.public_description,
     scraped_at |-> StrfTime(now, DateTimeFmt)]

\* The keys of the dict literals, per kind of record.
PostFields ==
    {"id", "title", "author", "subreddit", "score", "upvote_ratio",
     "num_comments", "created_utc", "created_datetime", "url", "permalink",
     "is_self", "selftext", "flair", "distinguished", "stickied", "spoiler",
     "nsfw", "gilded", "domain", "scraped_at"}
CommentFields ==
    {"comment_id", "post_id", "author", "body", "score", "created_utc",
     "created_datetime", "is_submitter", "distinguished", "gilded",
     "permalink", "scraped_at"}
SearchPostFields ==
    {"id", "title", "author", "subreddit", "score", "num_comments",
     "created_datetime", "url", "permalink", "selftext", "search_query",
     "scraped_at"}
UserPostFields ==
    {"id", "title", "author", "subreddit", "score", "num_comments",
     "created_datetime", "url", "permalink", "selftext", "scraped_at"}
InfoFields ==
    {"name", "title", "description", "subscribers", "active_users",
     "created_utc", "created_datetime", "over18", "public_description",
     "scraped_at"}
ArticleFields ==
    {"title", "url", "image", "category", "source", "scraped_at"}

(***************************************************************************)
(* try / except: what a function returns or lets escape.                   *)
(*   raised   the class raised inside the try body, NoExc when none        *)
(*   handler  the class of the except clause                               *)
(* The result is [ret, exc]: exc # NoExc means the exception escaped to    *)
(* the caller and ret is meaningless.                                      *)
(***************************************************************************)
TryExcept(raised, handler, normalRet, handlerRet) ==
    IF raised = NoExc THEN [ret |-> normalRet, exc |-> NoExc]
    ELSE IF IsSubclass(raised, handler) THEN [ret |-> handlerRet, exc |-> NoExc]
    ELSE [ret |-> handlerRet, exc |-> raised]

(***************************************************************************)
(* The source adapter seen from a query: the raw items it yields and where *)
(* it fails.  failAt = 0: no failure; failAt = k: the exception `exc` is   *)
(* raised while item k is fetched or normalised, after items 1..k-1 were   *)
(* normalised and appended (k = Len(items)+1: when the listing is          *)
(* exhausted, or before the first item of an empty listing).               *)
(***************************************************************************)
Source(items, failAt, exc) == [items |-> items, failAt |-> failAt, exc |-> exc]

Raised(src) == IF src.failAt = 0 THEN NoExc ELSE src.exc

\* the sort dispatch of get_subreddit_posts: an unknown sort means hot
SubredditEndpoint(sort_type) ==
    IF sort_type \in {"hot", "new", "rising", "top", "controversial"}
    THEN sort_type ELSE "hot"

\* the sort dispatch of get_user_posts: an unknown sort means new
UserEndpoint(sort) ==
    IF sort \in {"hot", "new", "top", "controversial"} THEN sort ELSE "new"

\* The handler returning the posts gathered before the failure.
get_subreddit_posts_partial(src, subreddit_name, sort_type, limit, time_filter, now) ==
    LET posts == [i \in 1..Len(src.items) |-> PostData(src.items[i], now)]
        done == IF src.failAt = 0 THEN Len(posts) ELSE src.failAt - 1
    IN TryExcept(Raised(src), "Exception", posts, SubSeq(posts, 1, done))

get_subreddit_posts(src, subreddit_name, sort_type, limit, time_filter, now) ==
    LET posts == [i \in 1..Len(src.items) |-> PostData(src.items[i], now)]
    IN TryExcept(Raised(src), "Exception", posts, <<>>)

\* submission.comments[:limit], keeping the items that have a body
RECURSIVE CommentRows(_, _, _)
CommentRows(items, post_id, now) ==
    IF items = <<>> THEN <<>>
    ELSE LET rest == CommentRows(Tail(items), post_id, now)
         IN IF Head(items).hasBody
            THEN <<CommentData(Head(items), post_id, now)>> \o rest
            ELSE rest

\* The function without its try / except.
get_post_comments_unguarded(src, post_id, limit, now) ==
    LET visited == SliceTo(src.items, limit)
        comments == CommentRows(visited, post_id, now)
        raised == IF src.failAt > Len(visited) + 1 THEN NoExc ELSE Raised(src)
    IN [ret |-> comments, exc |-> raised]

\* Only the first `limit` comments are visited: a failure placed on a later
\* one never happens.
get_post_comments(src, post_id, limit, now) ==
    LET visited == SliceTo(src.items, limit)
        comments == CommentRows(visited, post_id, now)
        raised == IF src.failAt > Len(visited) + 1 THEN NoExc ELSE Raised(src)
    IN TryExcept(raised, "Exception", comments, <<>>)

search_reddit(src, query, subreddit, sort, time_filter, limit, now) ==
    LET posts == [i \in 1..Len(src.items) |->
                     SearchPostData(src.items[i], query, now)]
    IN TryExcept(Raised(src), "Exception", posts, <<>>)

get_user_posts(src, username, sort, limit, now) ==
    LET posts == [i \in 1..Len(src.items) |->
                     UserPostData(src.items[i], username, now)]
    IN TryExcept(Raised(src), "Exception", posts, <<>>)

\* Returns the info dict, or {} on failure: <<info>> and <<>> here.
get_subreddit_info(src, subreddit_name, now) ==
    LET info == IF src.items = <<>> THEN <<>>
                ELSE <<SubredditInfo(src.items[1], now)>>
    IN TryExcept(Raised(src), "Exception", info, <<>>)

(***************************************************************************)
(* Persistence writers.                                                    *)
(* The file system seen from a writer call, `io`:                          *)
(*   openFails  open(filename, 'w') raises                                 *)
(*   failAt     0: every write succeeds; k: writing row k raises (k one    *)
(*              past the last row: the final flush at close raises)        *)
(*   flushed    rows that reached the file before the failure              *)
(*   exc        the class raised                                           *)
(* A file's content is [fmt, header, rows, complete].  A successful open   *)
(* truncates the file whatever happens next.                               *)
(***************************************************************************)
Io(openFails, failAt, flushed, exc) ==
    [openFails |-> openFails, failAt |-> failAt, flushed |-> flushed,
     exc |-> exc]
IoOk == Io(FALSE, 0, 0, NoExc)

Exists(files, name) == name \in DOMAIN files
PutFile(files, name, content) ==
    [f \in DOMAIN files \cup {name} |-> IF f = name THEN content ELSE files[f]]

\* str(value) as the csv module writes a cell
CsvCell(v) == [str |-> v]

\* csv.DictWriter._dict_to_list: a key outside fieldnames raises ValueError,
\* a missing key is written as the empty restval.
DictRowRaises(row, fieldnames) == ~(DOMAIN row \subseteq fieldnames)
DictRow(row, fieldnames) ==
    [f \in fieldnames |-> IF f \in DOMAIN row THEN CsvCell(row[f]) ELSE CsvCell("")]

\* index of the first row DictWriter refuses, 0 when none
RECURSIVE FirstBadRow(_, _, _)
FirstBadRow(data, fieldnames, i) ==
    IF i > Len(data) THEN 0
    ELSE IF DictRowRaises(data[i], fieldnames) THEN i
    ELSE FirstBadRow(data, fieldnames, i + 1)

\* Where the write loop stops: the earlier of the row the writer refuses and
\* the row the file system refuses; 0 when the whole batch is written.
StopRow(bad, io, n) ==
    LET ioAt == IF io.failAt = 0 \/ io.failAt > n + 1 THEN 0 ELSE io.failAt
    IN IF bad = 0 THEN ioAt
       ELSE IF ioAt = 0 THEN bad
       ELSE Min(bad, ioAt)

StopExc(bad, io, stop, rowExc) == IF bad # 0 /\ stop = bad THEN rowExc ELSE io.exc

\* Result of a writer: [ok, exc, fs, opened]
WriterResult(ok, exc, files, opened) ==
    [ok |-> ok, exc |-> exc, fs |-> files, opened |-> opened]

\* The try block shared by the writers, once the rows are computed.
WriteFile(files, filename, fmt, header, rows, bad, rowExc, io, handler) ==
    LET n == Len(rows)
        stop == StopRow(bad, io, n)
        kept == IF stop = 0 THEN n ELSE Min(io.flushed, stop - 1)
        content == [fmt |-> fmt, header |-> header,
                    rows |-> SubSeq(rows, 1, kept), complete |-> stop = 0]
        raised == IF io.openFails THEN io.exc
                  ELSE IF stop = 0 THEN NoExc
                  ELSE StopExc(bad, io, stop, rowExc)
        out == TryExcept(raised, handler, TRUE, FALSE)
    IN WriterResult(out.ret, out.exc,
                    IF io.openFails THEN files ELSE PutFile(files, filename, content),
                    ~io.openFails)

\* The writer catching the errors of the file system only.
save_to_csv_oserror_only(files, data, filename, io) ==
    IF data = <<>> THEN WriterResult(FALSE, NoExc, files, FALSE)
    ELSE LET fieldnames == DOMAIN data[1]
             bad == FirstBadRow(data, fieldnames, 1)
             rows == [i \in 1..Len(data) |->
                         IF DictRowRaises(data[i], fieldnames) THEN data[i]
                         ELSE DictRow(data[i], fieldnames)]
         IN WriteFile(files, filename, "csv", fieldnames, rows, bad,
                      "ValueError", io, "OSError")

\* RedditScraper.save_to_csv
save_to_csv(files, data, filename, io) ==
    IF data = <<>> THEN WriterResult(FALSE, NoExc, files, FALSE)
    ELSE LET fieldnames == DOMAIN data[1]
             bad == FirstBadRow(data, fieldnames, 1)
             rows == [i \in 1..Len(data) |->
                         IF DictRowRaises(data[i], fieldnames) THEN data[i]
                         ELSE DictRow(data[i], fieldnames)]
         IN WriteFile(files, filename, "csv", fieldnames, rows, bad,
                      "ValueError", io, "Exception")

\* RedditScraper.save_to_json
save_to_json(files, data, filename, io) ==
    IF data = <<>> THEN WriterResult(FALSE, NoExc, files, FALSE)
    ELSE WriteFile(files, filename, "json", {}, data, 0, NoExc, io, "Exception")

(***************************************************************************)
(* Times of India scraper.                                                 *)
(* A URL is the sequence of its pieces between slashes:                    *)
(*   "https://h/india/x"  is  <<"https:", "", "h", "india", "x">>          *)
(*   "/india/x"           is  <<"", "india", "x">>                         *)
(* so that "/seg/" occurs in it exactly when seg is a piece that has a     *)
(* piece before it and a piece after it.                                   *)
(***************************************************************************)
TitleMinLen == 15

SiteRoot == <<"https:", "", "timesofindia.indiatimes.com">>

\* s.startswith('http') for a URL given by its pieces
StartsWithHttp(u) == u # <<>> /\ u[1] \in {"http:", "https:"}

\* string concatenation of two URLs given by their pieces
ConcatUrl(a, b) ==
    IF b = <<>> THEN a
    ELSE SubSeq(a, 1, Len(a) - 1) \o <<a[Len(a)] \o b[1]>> \o Tail(b)

\* '/seg/' in url
HasSegment(u, seg) == \E i \in 2..(Len(u) - 1) : u[i] = seg

\* 'articleshow' in href: the pieces of the model that contain the word
HasArticleshow(u) ==
    \E i \in 1..Len(u) : u[i] \in {"articleshow", "articleshowprint"}

FullUrl(href) == IF StartsWithHttp(href) THEN href ELSE ConcatUrl(SiteRoot, href)

\* The same chain with the sports test moved to the front.
CategorySportsFirst(full_url) ==
    IF HasSegment(full_url, "sports") THEN "Sports"
    ELSE IF HasSegment(full_url, "india") THEN "India News"
    ELSE IF HasSegment(full_url, "world") THEN "World News"
    ELSE IF HasSegment(full_url, "business") THEN "Business"
    ELSE IF HasSegment(full_url, "entertainment") THEN "Entertainment"
    ELSE "Other"

Category(full_url) ==
    IF HasSegment(full_url, "india") THEN "India News"
    ELSE IF HasSegment(full_url, "world") THEN "World News"
    ELSE IF HasSegment(full_url, "sports") THEN "Sports"
    ELSE IF HasSegment(full_url, "business") THEN "Business"
    ELSE IF HasSegment(full_url, "entertainment") THEN "Entertainment"
    ELSE "Other"

\* An anchor element: its href, its text as padding around a core without
\* outer blanks, and the src of its img child (None: no img child).
Anchor(href, lead, core, img) ==
    [href |-> href, lead |-> lead, core |-> core, img |-> img]

GetText(a) == a.lead \o a.core \o a.lead
\* get_text().strip(): the padding goes, the core stays
StrippedText(a) == a.core

\* An image src is [scheme, rest]; the string is scheme followed by rest.
ImageUrl(a) ==
    IF a.img = None THEN ""
    ELSE LET src == a.img[1].scheme \o a.img[1].rest
         IN IF src # "" /\ a.img[1].scheme \notin {"http:", "https:"}
            THEN "https:" \o src
            ELSE src

IsArticle(a) ==
    /\ HasArticleshow(a.href)
    /\ StrippedText(a) # ""
    /\ Len(StrippedText(a)) > TitleMinLen

Article(a, now) ==
    [title |-> StrippedText(a), url |-> FullUrl(a.href), image |-> ImageUrl(a),
     category |-> Category(FullUrl(a.href)), source |-> "Times of India",
     scraped_at |-> StrfTime(now, DateTimeFmt)]

\* the loop over soup.find_all('a', href=True)
RECURSIVE NewsArticles(_, _)
NewsArticles(anchors, now) ==
    IF anchors = <<>> THEN <<>>
    ELSE IF IsArticle(Head(anchors))
         THEN <<Article(Head(anchors), now)>> \o NewsArticles(Tail(anchors), now)
         ELSE NewsArticles(Tail(anchors), now)

\* A pass that empties the set of seen URLs each time it drops a record.
RECURSIVE UniqueFromForgetful(_, _, _)
UniqueFromForgetful(news_articles, seen_urls, unique_articles) ==
    IF news_articles = <<>> THEN unique_articles
    ELSE LET article == Head(news_articles)
         IN IF article.url \notin seen_urls
            THEN UniqueFromForgetful(Tail(news_articles),
                                     seen_urls \cup {article.url},
                                     Append(unique_articles, article))
            ELSE UniqueFromForgetful(Tail(news_articles), {}, unique_articles)

\* "Remove duplicates based on URL": one pass with the set of seen URLs
RECURSIVE UniqueFrom(_, _, _)
UniqueFrom(news_articles, seen_urls, unique_articles) ==
    IF news_articles = <<>> THEN unique_articles
    ELSE LET article == Head(news_articles)
         IN IF article.url \notin seen_urls
            THEN UniqueFrom(Tail(news_articles), seen_urls \cup {article.url},
                            Append(unique_articles, article))
            ELSE UniqueFrom(Tail(news_articles), seen_urls, unique_articles)

\* A pass that keeps one record per URL but lets a later duplicate replace
\* the record kept (a dict keyed by URL).
RemoveDuplicatesKeepLast(news_articles) ==
    LET unique == UniqueFrom(news_articles, {}, <<>>)
        LastWith(u) == CHOOSE k \in 1..Len(news_articles) :
                          /\ news_articles[k].url = u
                          /\ \A m \in (k + 1)..Len(news_articles) :
                                news_articles[m].url # u
    IN [i \in 1..Len(unique) |-> news_articles[LastWith(unique[i].url)]]

RemoveDuplicates(news_articles) == UniqueFrom(news_articles, {}, <<>>)

\* Both except clauses return []: RequestException first, then Exception.
scrape_times_of_india(src, now) ==
    LET unique_articles == RemoveDuplicates(NewsArticles(src.items, now))
        first == TryExcept(Raised(src), "RequestException", unique_articles, <<>>)
    IN IF first.exc = NoExc THEN first
       ELSE TryExcept(first.exc, "Exception", unique_articles, <<>>)

ToiHeader == <<"Title", "URL", "Image_URL", "Category", "Source", "Scraped_At">>
ToiKeys == {"title", "url", "image", "category", "source", "scraped_at"}
ToiFile == "times_of_india_articles.csv"

ToiRow(article) ==
    <<CsvCell(article.title), CsvCell(article.url), CsvCell(article.image),
      CsvCell(article.category), CsvCell(article.source),
      CsvCell(article.scraped_at)>>

\* index of the first article lacking one of the keys the row reads, or 0
RECURSIVE FirstKeyError(_, _)
FirstKeyError(articles, i) ==
    IF i > Len(articles) THEN 0
    ELSE IF ~(ToiKeys \subseteq DOMAIN articles[i]) THEN i
    ELSE FirstKeyError(articles, i + 1)

\* save_to_csv of toi_scraper.py: no test for an empty list
toi_save_to_csv(files, articles, filename, io) ==
    LET bad == FirstKeyError(articles, 1)
        rows == [i \in 1..Len(articles) |->
                    IF ToiKeys \subseteq DOMAIN articles[i]
                    THEN ToiRow(articles[i]) ELSE <<>>]
    IN WriteFile(files, filename, "csv", ToiHeader, rows, bad, "KeyError",
                 io, "Exception")

(***************************************************************************)
(* What the user types at a prompt.                                        *)
(***************************************************************************)
\* input(...).strip(): the inputs of the model are blank or have no outer blanks
Strip(s) == IF s \in {"", " "} THEN "" ELSE s

\* input(...).strip() or default
InputOr(s, default) == IF Strip(s) = "" THEN default ELSE Strip(s)

\* int(text): the decimal strings of the model, ValueError for anything else
IntValue(s) ==
    CASE s = "1" -> 1 [] s = "2" -> 2 [] s = "3" -> 3 [] s = "4" -> 4 [] OTHER -> 0
IsInt(s) == s \in {"1", "2", "3", "4"}

\* int(input(...).strip() or default): [val, exc]
IntInputOr(s, default) ==
    IF Strip(s) = "" THEN [val |-> default, exc |-> NoExc]
    ELSE IF IsInt(Strip(s)) THEN [val |-> IntValue(Strip(s)), exc |-> NoExc]
    ELSE [val |-> default, exc |-> "ValueError"]

\* str.lower() on the answers of the model
Lower(s) == IF s = "Y" THEN "y" ELSE IF s = "N" THEN "n" ELSE s

DefaultPostLimit == 25
DefaultCommentLimit == 50
DefaultCompositePosts == 10
DefaultCompositeComments == 20

(***************************************************************************)
(* The record of one invocation, kept in `calls`.                          *)
(*   op      the function called          target  its subject or file name *)
(*   limit   the limit argument of a query, 0 where there is none          *)
(*   src     the behaviour of the source or of the file system             *)
(*   batch   the list returned (query) or handed over (writer)             *)
(*   ok      the writer's return value     exc    the exception that       *)
(*   escaped, NoExc when the call returned                                 *)
(*   opened  the writer opened its file for writing                        *)
(*   kept    the file system is as it was before the call                  *)
(***************************************************************************)
QueryEvent(op, target, limit, src, r) ==
    [op |-> op, target |-> target, limit |-> limit, src |-> src,
     batch |-> r.ret, ok |-> TRUE, exc |-> r.exc, opened |-> FALSE,
     kept |-> TRUE]

WriterEvent(op, filename, data, io, files, w) ==
    [op |-> op, target |-> filename, limit |-> 0, src |-> io, batch |-> data,
     ok |-> w.ok, exc |-> w.exc, opened |-> w.opened, kept |-> w.fs = files]

QueryOps == {"get_subreddit_posts", "get_post_comments", "search_reddit",
             "get_user_posts", "get_subreddit_info", "scrape_times_of_india"}
WriterOps == {"save_to_csv", "save_to_json", "toi_save_to_csv"}

\* Result of a stretch of the menu: [fs, events, exc, save_format]
Stretch(files, events, exc) ==
    [fs |-> files, events |-> events, exc |-> exc, save_format |-> ""]
Asked(st, chosen) == [st EXCEPT !.save_format = chosen]

\* The block with the JSON write made only after a CSV write that succeeded.
SaveAsStopOnFailure(files, data, chosen, base, io1, io2) ==
    LET doCsv == chosen \in {"csv", "both"}
        doJson == chosen \in {"json", "both"}
        w1 == save_to_csv(files, data, base \o ".csv", io1)
        e1 == WriterEvent("save_to_csv", base \o ".csv", data, io1, files, w1)
        fs1 == IF doCsv THEN w1.fs ELSE files
        ev1 == IF doCsv THEN <<e1>> ELSE <<>>
        w2 == save_to_json(fs1, data, base \o ".json", io2)
        e2 == WriterEvent("save_to_json", base \o ".json", data, io2, fs1, w2)
    IN IF doCsv /\ ~w1.ok THEN Stretch(fs1, ev1, w1.exc)
       ELSE IF doJson THEN Stretch(w2.fs, Append(ev1, e2), w2.exc)
       ELSE Stretch(fs1, ev1, NoExc)

\* The "Save as (csv/json/both/skip)" block of choices 1 to 4.
SaveAs(files, data, chosen, base, io1, io2) ==
    LET doCsv == chosen \in {"csv", "both"}
        doJson == chosen \in {"json", "both"}
        w1 == save_to_csv(files, data, base \o ".csv", io1)
        e1 == WriterEvent("save_to_csv", base \o ".csv", data, io1, files, w1)
        fs1 == IF doCsv THEN w1.fs ELSE files
        ev1 == IF doCsv THEN <<e1>> ELSE <<>>
        w2 == save_to_json(fs1, data, base \o ".json", io2)
        e2 == WriterEvent("save_to_json", base \o ".json", data, io2, fs1, w2)
    IN IF doCsv /\ w1.exc # NoExc THEN Stretch(fs1, ev1, w1.exc)
       ELSE IF doJson THEN Stretch(w2.fs, Append(ev1, e2), w2.exc)
       ELSE Stretch(fs1, ev1, NoExc)

(***************************************************************************)
(* Inputs of the interactive run.                                          *)
(***************************************************************************)
Clocks == {7}
Ids == <<"1", "2", "3", "4">>

\* The posts and comments the platform holds in a menu run, in listing order.
MenuPost(i) ==
    IF i = 1 THEN Submission("p1", None, None, None, None)
    ELSE Submission("p" \o Ids[i], Some("u" \o Ids[i]), Some(Text(2)),
                    Some("flair"), None)
MenuComment(i) ==
    Comment("c" \o Ids[i], IF i = 1 THEN None ELSE Some("u" \o Ids[i]),
            Text(i), None, TRUE)

MenuPosts(n) == [i \in 1..n |-> MenuPost(i)]
MenuComments(n) == [i \in 1..n |-> MenuComment(i)]

\* a listing of n items that fails at f (0: not at all)
MenuPostSources ==
    {Source(MenuPosts(n), f, "PrawcoreException") :
        n \in 0..MaxItems, f \in 0..(MaxItems + 1)} 
MenuCommentSources ==
    {Source(MenuComments(n), 0, NoExc) : n \in {0, MaxItems}}
    \cup {Source(MenuComments(MaxItems), f, "PrawcoreException") :
             f \in {1, MaxItems}}
MenuInfoSources ==
    {Source(<<Subreddit("a", Text(3))>>, f, "PrawcoreException") : f \in 0..1}

MenuIo == {IoOk, Io(TRUE, 0, 0, "OSError")}

SubredditNames == {"a"}
SortInputs == {"", "top"}
IntInputs == {"", "1", "abc"}
FormatInputs == {" ", "json", "both", "skip"}
Queries == {"q r"}

\* query.replace(' ', '_') on the queries of the model
ReplaceSpaces(q) == IF q = "q r" THEN "q_r" ELSE q

(***************************************************************************)
(* RedditScraper.__init__ and the start of interactive_menu.               *)
(***************************************************************************)
\* __init__ reporting the failure without raising it again
RedditScraperInitSwallow(raised) ==
    LET caught == TryExcept(raised, "Exception", NoExc, NoExc)
    IN [exc |-> IF caught.exc # NoExc THEN caught.exc ELSE caught.ret]

\* __init__ reports the failure and raises it again
RedditScraperInit(raised) ==
    LET caught == TryExcept(raised, "Exception", NoExc, raised)
    IN [exc |-> IF caught.exc # NoExc THEN caught.exc ELSE caught.ret]

\* One step of the script ends: the menu loop goes on unless an exception
\* escaped the handler of the choice.
Finish(ch, st) ==
    /\ calls' = st.events
    /\ fs' = st.fs
    /\ choice' = ch
    /\ save_format' = st.save_format
    /\ steps' = steps + 1
    /\ pc' = IF st.exc = NoExc THEN "loop" ELSE "crashed"
    /\ UNCHANGED connect

InMenu == pc = "menu"

Construct ==
    /\ pc = "start"
    /\ \E raised \in {NoExc} \cup SourceExcs :
          LET init == RedditScraperInit(raised)
              guarded == TryExcept(init.exc, "Exception", "loop", "aborted")
          IN /\ pc' = IF guarded.exc = NoExc THEN guarded.ret ELSE "crashed"
             /\ connect' = IF raised = NoExc THEN "ok" ELSE "failed"
    /\ UNCHANGED <<fs, calls, choice, save_format, steps>>

\* The head of `while True`: the menu is printed and the choice is awaited.
\* Nothing of the previous iteration is kept but the files it wrote.
ShowMenu ==
    /\ pc = "loop"
    /\ steps < MaxSteps
    /\ pc' = "menu"
    /\ calls' = <<>>
    /\ choice' = ""
    /\ save_format' = ""
    /\ UNCHANGED <<fs, connect, steps>>

\* The listings a source can answer a request for at most `limit` items with.
Answers(sources, limit) ==
    {src \in sources :
        Len(src.items) <= limit /\ src.failAt <= Len(src.items) + 1}

\* The file system behaviours that matter to a writer: one when it is not called.
IoFor(called) == IF called THEN MenuIo ELSE {IoOk}

\* The tail without the test for an empty batch.
AfterQueryUnguarded(ch, q, r, base) ==
    IF r.exc # NoExc THEN Finish(ch, Stretch(fs, <<q>>, r.exc))
    ELSE \E format_in \in FormatInputs :
           LET chosen == InputOr(format_in, "csv")
           IN \E io1 \in IoFor(chosen \in {"csv", "both"}),
                 io2 \in IoFor(chosen \in {"json", "both"}) :
                 LET save == SaveAs(fs, r.ret, chosen, base, io1, io2)
                 IN Finish(ch, Asked(Stretch(save.fs, <<q>> \o save.events,
                                             save.exc),
                                     chosen))

\* The tail shared by choices 1 to 4 once the query returned r: nothing is
\* asked or saved for an empty batch, else the save format is asked.
AfterQuery(ch, q, r, base) ==
    IF r.exc # NoExc THEN Finish(ch, Stretch(fs, <<q>>, r.exc))
    ELSE IF r.ret = <<>> THEN Finish(ch, Stretch(fs, <<q>>, NoExc))
    ELSE \E format_in \in FormatInputs :
           LET chosen == InputOr(format_in, "csv")
           IN \E io1 \in IoFor(chosen \in {"csv", "both"}),
                 io2 \in IoFor(chosen \in {"json", "both"}) :
                 LET save == SaveAs(fs, r.ret, chosen, base, io1, io2)
                 IN Finish(ch, Asked(Stretch(save.fs, <<q>> \o save.events,
                                             save.exc),
                                     chosen))

Choice1 ==
    /\ InMenu
    /\ \E subreddit \in SubredditNames, sort_in \in SortInputs,
          limit_in \in IntInputs, now \in Clocks :
          LET sort_type == InputOr(sort_in, "hot")
              limit == IntInputOr(limit_in, DefaultPostLimit)
              asked == sort_type \in {"top", "controversial"}
          IN IF limit.exc # NoExc
             THEN Finish("1", Stretch(fs, <<>>, limit.exc))
             ELSE \E filter_in \in (IF asked THEN {"", "day"} ELSE {""}),
                     src \in Answers(MenuPostSources, limit.val) :
                     LET time_filter == IF asked THEN InputOr(filter_in, "all")
                                        ELSE "all"
                         r == get_subreddit_posts(src, subreddit, sort_type,
                                                  limit.val, time_filter, now)
                         q == QueryEvent("get_subreddit_posts", subreddit,
                                         limit.val, src, r)
                     IN AfterQuery("1", q, r,
                                   subreddit \o "_" \o sort_type \o "_posts")

Choice2 ==
    /\ InMenu
    /\ \E post_id \in {"p1"}, limit_in \in IntInputs, now \in Clocks :
          LET limit == IntInputOr(limit_in, DefaultCommentLimit)
          IN IF limit.exc # NoExc
             THEN Finish("2", Stretch(fs, <<>>, limit.exc))
             ELSE \E src \in MenuCommentSources :
                     LET r == get_post_comments(src, post_id, limit.val, now)
                         q == QueryEvent("get_post_comments", post_id, limit.val,
                                         src, r)
                     IN AfterQuery("2", q, r, "comments_" \o post_id)

Choice3 ==
    /\ InMenu
    /\ \E query \in Queries, subreddit_in \in {"", "a"}, sort_in \in {""},
          limit_in \in IntInputs, now \in Clocks :
          LET subreddit == IF Strip(subreddit_in) = "" THEN None
                           ELSE Some(Strip(subreddit_in))
              sort == InputOr(sort_in, "relevance")
              limit == IntInputOr(limit_in, DefaultPostLimit)
          IN IF limit.exc # NoExc
             THEN Finish("3", Stretch(fs, <<>>, limit.exc))
             ELSE \E src \in Answers(MenuPostSources, limit.val) :
                     LET r == search_reddit(src, query, subreddit, sort, "all",
                                            limit.val, now)
                         q == QueryEvent("search_reddit", query, limit.val, src, r)
                     IN AfterQuery("3", q, r, "search_" \o ReplaceSpaces(query))

Choice4 ==
    /\ InMenu
    /\ \E username \in {"u"}, sort_in \in {"", "top"}, limit_in \in IntInputs,
          now \in Clocks :
          LET sort == InputOr(sort_in, "new")
              limit == IntInputOr(limit_in, DefaultPostLimit)
          IN IF limit.exc # NoExc
             THEN Finish("4", Stretch(fs, <<>>, limit.exc))
             ELSE \E src \in Answers(MenuPostSources, limit.val) :
                     LET r == get_user_posts(src, username, sort, limit.val, now)
                         q == QueryEvent("get_user_posts", username, limit.val,
                                         src, r)
                     IN AfterQuery("4", q, r, "user_" \o username \o "_posts")

Choice5 ==
    /\ InMenu
    /\ \E subreddit \in SubredditNames, src \in MenuInfoSources, now \in Clocks :
          LET r == get_subreddit_info(src, subreddit, now)
              q == QueryEvent("get_subreddit_info", subreddit, 0, src, r)
              filename == "subreddit_" \o subreddit \o "_info.json"
          IN IF r.exc # NoExc THEN Finish("5", Stretch(fs, <<q>>, r.exc))
             ELSE IF r.ret = <<>> THEN Finish("5", Stretch(fs, <<q>>, NoExc))
             ELSE \E save_in \in {"y", "Y", "n", ""} :
                    IF Lower(Strip(save_in)) = "y"
                    THEN \E io \in MenuIo :
                           LET w == save_to_json(fs, r.ret, filename, io)
                               e == WriterEvent("save_to_json", filename,
                                                r.ret, io, fs, w)
                           IN Finish("5", Stretch(w.fs, <<q, e>>, w.exc))
                    ELSE Finish("5", Stretch(fs, <<q>>, NoExc))

\* The loop walking the posts from the last to the first.
RECURSIVE HarvestCommentsBackwards(_, _, _, _, _)
HarvestCommentsBackwards(posts, i, csrc, comment_limit, now) ==
    IF i > Len(posts)
    THEN [events |-> <<>>, all_comments |-> <<>>, exc |-> NoExc]
    ELSE LET j == Len(posts) + 1 - i
             r == get_post_comments(csrc[j], posts[j].id, comment_limit, now)
             q == QueryEvent("get_post_comments", posts[j].id, comment_limit,
                             csrc[j], r)
             rest == HarvestCommentsBackwards(posts, i + 1, csrc,
                                              comment_limit, now)
         IN IF r.exc # NoExc
            THEN [events |-> <<q>>, all_comments |-> <<>>, exc |-> r.exc]
            ELSE [events |-> <<q>> \o rest.events,
                  all_comments |-> r.ret \o rest.all_comments,
                  exc |-> rest.exc]

\* The loop of choice 6 from post i on: [events, all_comments, exc]
RECURSIVE HarvestComments(_, _, _, _, _)
HarvestComments(posts, i, csrc, comment_limit, now) ==
    IF i > Len(posts)
    THEN [events |-> <<>>, all_comments |-> <<>>, exc |-> NoExc]
    ELSE LET r == get_post_comments(csrc[i], posts[i].id, comment_limit, now)
             q == QueryEvent("get_post_comments", posts[i].id, comment_limit,
                             csrc[i], r)
             rest == HarvestComments(posts, i + 1, csrc, comment_limit, now)
         IN IF r.exc # NoExc
            THEN [events |-> <<q>>, all_comments |-> <<>>, exc |-> r.exc]
            ELSE [events |-> <<q>> \o rest.events,
                  all_comments |-> r.ret \o rest.all_comments,
                  exc |-> rest.exc]

\* The two writes of choice 6, made when both batches are non-empty.
SaveComposite(files, posts, all_comments, subreddit, io1, io2) ==
    LET name1 == subreddit \o "_posts_with_comments.csv"
        name2 == subreddit \o "_all_comments.csv"
        w1 == save_to_csv(files, posts, name1, io1)
        e1 == WriterEvent("save_to_csv", name1, posts, io1, files, w1)
        w2 == save_to_csv(w1.fs, all_comments, name2, io2)
        e2 == WriterEvent("save_to_csv", name2, all_comments, io2, w1.fs, w2)
    IN IF posts # <<>> /\ all_comments # <<>>
       THEN IF w1.exc # NoExc THEN Stretch(w1.fs, <<e1>>, w1.exc)
            ELSE Stretch(w2.fs, <<e1, e2>>, w2.exc)
       ELSE Stretch(files, <<>>, NoExc)

Choice6 ==
    /\ InMenu
    /\ \E subreddit \in SubredditNames, post_limit_in \in IntInputs,
          comment_limit_in \in IntInputs, now \in Clocks :
          LET post_limit == IntInputOr(post_limit_in, DefaultCompositePosts)
              comment_limit ==
                  IntInputOr(comment_limit_in, DefaultCompositeComments)
          IN IF post_limit.exc # NoExc
             THEN Finish("6", Stretch(fs, <<>>, post_limit.exc))
             ELSE IF comment_limit.exc # NoExc
             THEN Finish("6", Stretch(fs, <<>>, comment_limit.exc))
             ELSE \E src \in Answers(MenuPostSources, post_limit.val) :
                LET r == get_subreddit_posts(src, subreddit, "hot",
                                             post_limit.val, "all", now)
                    q == QueryEvent("get_subreddit_posts", subreddit,
                                    post_limit.val, src, r)
                IN IF r.exc # NoExc THEN Finish("6", Stretch(fs, <<q>>, r.exc))
                   ELSE \E csrc \in [1..Len(r.ret) -> MenuCommentSources] :
                      LET h == HarvestComments(r.ret, 1, csrc,
                                               comment_limit.val, now)
                          saving == r.ret # <<>> /\ h.all_comments # <<>>
                      IN IF h.exc # NoExc
                         THEN Finish("6", Stretch(fs, <<q>> \o h.events, h.exc))
                         ELSE \E io1 \in IoFor(saving), io2 \in IoFor(saving) :
                            LET save == SaveComposite(fs, r.ret, h.all_comments,
                                                      subreddit, io1, io2)
                            IN Finish("6",
                                  Stretch(save.fs,
                                          <<q>> \o h.events \o save.events,
                                          save.exc))

Choice7 ==
    /\ InMenu
    /\ pc' = "exited"
    /\ choice' = "7"
    /\ calls' = <<>>
    /\ steps' = steps + 1
    /\ UNCHANGED <<fs, save_format, connect>>

\* anything but 1..7: "Invalid choice" and the menu again
InvalidChoice ==
    /\ InMenu
    /\ \E ch \in {"", "8"} : Finish(ch, Stretch(fs, <<>>, NoExc))

(***************************************************************************)
(* reddit_scraper_ready.py run as a script: main calls interactive_menu.   *)
(***************************************************************************)
\* The files an earlier run may have left under the names the menu writes.
MenuFileNames ==
    {"a_hot_posts.csv", "a_hot_posts.json", "comments_p1.csv",
     "search_q_r.json", "user_u_posts.csv", "subreddit_a_info.json",
     "a_posts_with_comments.csv", "a_all_comments.csv"}
StaleFile == [fmt |-> "stale", header |-> {}, rows |-> <<>>, complete |-> TRUE]
NoFiles == <<>>
StaleFiles == [f \in MenuFileNames |-> StaleFile]

Init ==
    /\ pc = "start"
    /\ fs \in {NoFiles, StaleFiles}
    /\ calls = <<>>
    /\ choice = ""
    /\ save_format = ""
    /\ connect = "pending"
    /\ steps = 0

Next ==
    \/ Construct
    \/ ShowMenu
    \/ Choice1
    \/ Choice2
    \/ Choice3
    \/ Choice4
    \/ Choice5
    \/ Choice6
    \/ Choice7
    \/ InvalidChoice

Spec == Init /\ [][Next]_vars

(***************************************************************************)
(* Bounded sequences and file system behaviours for the other two          *)
(* specifications.                                                         *)
(***************************************************************************)
SeqsUpTo(S, n) == UNION {[1..k -> S] : k \in 0..n}

\* every way the file system can treat the write of n rows
IoBehaviours(n) ==
    {IoOk, Io(TRUE, 0, 0, "OSError")}
    \cup {Io(FALSE, k, j, "OSError") : k \in 1..(n + 1), j \in {0, n}}

\* the ways a fetch can go: well, failing at the request, or failing on one
\* of the items after the earlier ones were normalised
Failures(items, fetchExc) ==
    {Source(items, 0, NoExc), Source(items, 1, fetchExc)}
    \cup {Source(items, f, "TypeError") : f \in 2..(Len(items) + 1)}

\* the same, with the item failures reduced to the last one
EndFailures(items, fetchExc) ==
    {Source(items, 0, NoExc), Source(items, 1, fetchExc),
     Source(items, Len(items) + 1, "AttributeError")}

(***************************************************************************)
(* toi_scraper.py run as a script: main.                                   *)
(***************************************************************************)
HIndia == <<"", "india", "t1", "articleshow", "1.cms">>
HIndiaAbs == SiteRoot \o <<"india", "t1", "articleshow", "1.cms">>
HSports == SiteRoot \o <<"sports", "cricket", "articleshow", "2.cms">>
HSportsIndia == <<"", "sports", "india", "articleshow", "3.cms">>
HWorld == <<"", "world", "business", "articleshowprint", "4.cms">>
HBusiness == <<"", "business", "articleshow", "5.cms">>
HEntertainment == <<"", "city", "entertainment", "articleshow", "6.cms">>
HNoSlash == <<"sports", "articleshow", "8.cms">>
HAbout == <<"", "india", "about">>

Title21 == "India wins the series"
Title25 == "Markets rally again today"
Title16 == "Sixteen chars!!!"
Title15 == "Fifteen chars!!"

ImgRelative == Some([scheme |-> "", rest |-> "//static.toi/photo.jpg"])
ImgAbsolute == Some([scheme |-> "https:", rest |-> "//static.toi/photo.jpg"])
ImgNoSrc == Some([scheme |-> "", rest |-> ""])

Anchors ==
    {Anchor(HIndia, "", Title21, None),
     Anchor(HIndiaAbs, " ", Title25, ImgRelative),
     Anchor(HSports, "", Title16, ImgAbsolute),
     Anchor(HSportsIndia, "", Title21, ImgNoSrc),
     Anchor(HWorld, " ", Title25, None),
     Anchor(HBusiness, "", Title21, None),
     Anchor(HEntertainment, "", Title25, None),
     Anchor(HNoSlash, "", Title21, None),
     Anchor(HSports, " ", Title15, None),
     Anchor(HAbout, "", Title21, None)}

ToiStaleFiles == [f \in {ToiFile} |-> StaleFile]

InitToi ==
    /\ pc = "toi_main"
    /\ fs \in {NoFiles, ToiStaleFiles}
    /\ calls = <<>>
    /\ choice = ""
    /\ save_format = ""
    /\ connect = "pending"
    /\ steps = 0

\* main: scrape, stop on an empty list, else print the statistics and the
\* samples (which only read the records) and save.
ToiMain ==
    /\ pc = "toi_main"
    /\ \E page \in SeqsUpTo(Anchors, MaxAnchors), now \in Clocks :
       \E src \in EndFailures(page, "RequestException") :
          LET r == scrape_times_of_india(src, now)
              q == QueryEvent("scrape_times_of_india", "homepage", 0, src, r)
          IN IF r.exc # NoExc
             THEN /\ calls' = <<q>> /\ fs' = fs /\ pc' = "crashed"
             ELSE IF r.ret = <<>>
             THEN /\ calls' = <<q>> /\ fs' = fs /\ pc' = "toi_done"
             ELSE \E io \in MenuIo \cup {Io(FALSE, 1, 0, "OSError")} :
                    LET w == toi_save_to_csv(fs, r.ret, ToiFile, io)
                        e == WriterEvent("toi_save_to_csv", ToiFile, r.ret,
                                         io, fs, w)
                    IN /\ calls' = <<q, e>>
                       /\ fs' = w.fs
                       /\ pc' = IF w.exc = NoExc THEN "toi_done" ELSE "crashed"
    /\ UNCHANGED <<choice, save_format, connect, steps>>

NextToi == ToiMain

SpecToi == InitToi /\ [][NextToi]_vars

(***************************************************************************)
(* The two scripts side by side: a run is a run of interactive_menu or a   *)
(* run of the main of the news script.                                     *)
(***************************************************************************)
InitOrchestration == Init \/ InitToi

NextOrchestration == Next \/ NextToi

SpecOrchestration == InitOrchestration /\ [][NextOrchestration]_vars

(***************************************************************************)
(* The functions called directly, one call per behaviour, on inputs that   *)
(* cover the cut-off lengths and the batches no query produces.            *)
(***************************************************************************)
TextLens == {0, 1, 300, 301, 500, 501, 1000}

LibSubmissions ==
    {Submission("p1", Some("u1"), Some(Text(n)), Some("flair"), None) :
        n \in TextLens}
    \cup {Submission("p2", None, None, None, Some("moderator"))}

LibComments ==
    {Comment("c" \o ToString(n), Some("u1"), Text(n), None, TRUE) :
        n \in {0, 201, 501, 1000}}
    \cup {Comment("c2", None, Text(301), Some("moderator"), TRUE),
          Comment("c3", None, Text(1), None, FALSE)}

LibSubreddits == {Subreddit("a", Text(n)) : n \in {0, 200, 201, 500, 501, 1000}}

\* records with differing key sets, and articles with and without a key
LibRecords ==
    {[id |-> "p1", title |-> "t1"], [id |-> "p2", title |-> "t2"],
     [id |-> "p3"], [id |-> "p4", title |-> "t4", extra |-> "x"],
     [title |-> Title21, url |-> HSports, image |-> "", category |-> "Sports",
      source |-> "Times of India", scraped_at |-> StrfTime(7, DateTimeFmt)],
     [title |-> Title25, url |-> HIndiaAbs, category |-> "India News",
      source |-> "Times of India", scraped_at |-> StrfTime(7, DateTimeFmt)]}

LibFile == "out.dat"
LibStaleFiles == [f \in {LibFile} |-> StaleFile]

InitLib ==
    /\ pc = "lib"
    /\ fs \in {NoFiles, LibStaleFiles}
    /\ calls = <<>>
    /\ choice = ""
    /\ save_format = ""
    /\ connect = "pending"
    /\ steps = 0

\* a direct call returned r (a query) at the caller
Returned(event, exc, files) ==
    /\ calls' = <<event>>
    /\ fs' = files
    /\ pc' = IF exc = NoExc THEN "returned" ELSE "raised"
    /\ UNCHANGED <<choice, save_format, connect, steps>>

LibGetSubredditPosts ==
    /\ pc = "lib"
    /\ \E items \in SeqsUpTo(LibSubmissions, MaxItems), now \in Clocks :
       \E src \in Failures(items, "PrawcoreException") :
          LET r == get_subreddit_posts(src, "a", "hot", DefaultPostLimit,
                                       "all", now)
          IN Returned(QueryEvent("get_subreddit_posts", "a", DefaultPostLimit,
                                  src, r), r.exc, fs)

LibGetPostComments ==
    /\ pc = "lib"
    /\ \E items \in SeqsUpTo(LibComments, MaxItems), limit \in {1, 2, 50},
          now \in Clocks :
       \E src \in Failures(items, "PrawcoreException") :
          LET r == get_post_comments(src, "p1", limit, now)
          IN Returned(QueryEvent("get_post_comments", "p1", limit, src, r), r.exc, fs)

LibSearchReddit ==
    /\ pc = "lib"
    /\ \E items \in SeqsUpTo(LibSubmissions, MaxItems), now \in Clocks :
       \E src \in Failures(items, "PrawcoreException") :
          LET r == search_reddit(src, "q r", None, "relevance", "all",
                                 DefaultPostLimit, now)
          IN Returned(QueryEvent("search_reddit", "q r", DefaultPostLimit,
                                  src, r), r.exc, fs)

LibGetUserPosts ==
    /\ pc = "lib"
    /\ \E items \in SeqsUpTo(LibSubmissions, MaxItems), now \in Clocks :
       \E src \in Failures(items, "PrawcoreException") :
          LET r == get_user_posts(src, "u", "new", DefaultPostLimit, now)
          IN Returned(QueryEvent("get_user_posts", "u", DefaultPostLimit, src, r), r.exc, fs)

LibGetSubredditInfo ==
    /\ pc = "lib"
    /\ \E sr \in LibSubreddits, f \in 0..1, now \in Clocks :
          LET src == Source(<<sr>>, f, "PrawcoreException")
              r == get_subreddit_info(src, "a", now)
          IN Returned(QueryEvent("get_subreddit_info", "a", 0, src, r), r.exc, fs)

LibScrapeTimesOfIndia ==
    /\ pc = "lib"
    /\ \E page \in SeqsUpTo(Anchors, MaxItems), now \in Clocks :
       \E src \in Failures(page, "RequestException") :
          LET r == scrape_times_of_india(src, now)
          IN Returned(QueryEvent("scrape_times_of_india", "homepage", 0, src, r),
                      r.exc, fs)

LibSaveToCsv ==
    /\ pc = "lib"
    /\ \E data \in SeqsUpTo(LibRecords, MaxRows) :
       \E io \in IoBehaviours(Len(data)) :
          LET w == save_to_csv(fs, data, LibFile, io)
          IN Returned(WriterEvent("save_to_csv", LibFile, data, io, fs, w),
                      w.exc, w.fs)

LibSaveToJson ==
    /\ pc = "lib"
    /\ \E data \in SeqsUpTo(LibRecords, MaxRows) :
       \E io \in IoBehaviours(Len(data)) :
          LET w == save_to_json(fs, data, LibFile, io)
          IN Returned(WriterEvent("save_to_json", LibFile, data, io, fs, w),
                      w.exc, w.fs)

LibToiSaveToCsv ==
    /\ pc = "lib"
    /\ \E articles \in SeqsUpTo(LibRecords, MaxRows) :
       \E io \in IoBehaviours(Len(articles)) :
          LET w == toi_save_to_csv(fs, articles, LibFile, io)
          IN Returned(WriterEvent("toi_save_to_csv", LibFile, articles, io,
                                  fs, w),
                      w.exc, w.fs)

NextLib ==
    \/ LibGetSubredditPosts
    \/ LibGetPostComments
    \/ LibSearchReddit
    \/ LibGetUserPosts
    \/ LibGetSubredditInfo
    \/ LibScrapeTimesOfIndia
    \/ LibSaveToCsv
    \/ LibSaveToJson
    \/ LibToiSaveToCsv

SpecLib == InitLib /\ [][NextLib]_vars

(***************************************************************************)
(* Properties.                                                             *)
(***************************************************************************)
Events == {calls[i] : i \in 1..Len(calls)}
EventsOf(ops) == {e \in Events : e.op \in ops}

\* the source raised while the query ran
SourceFailed(e) ==
    /\ e.src.failAt # 0
    /\ e.op = "get_post_comments" =>
          e.src.failAt <= Min(e.limit, Len(e.src.items)) + 1

\* position of the first record of a list that carries the URL u
FirstWithUrl(list, u) ==
    CHOOSE k \in 1..Len(list) :
        list[k].url = u /\ \A m \in 1..(k - 1) : list[m].url # u

\* C1: the list scrape_times_of_india returns holds exactly one record per
\* URL of the list it built from the page, that record is the first one built
\* with that URL, and the records kept stand in the order they were built.
C1_DedupeKeepsFirst ==
    \A e \in EventsOf({"scrape_times_of_india"}) : \A now \in Clocks :
        LET input == NewsArticles(e.src.items, now)
            out == e.batch
        IN ~SourceFailed(e) =>
             /\ {out[i].url : i \in 1..Len(out)}
                  = {input[i].url : i \in 1..Len(input)}
             /\ \A i, j \in 1..Len(out) : out[i].url = out[j].url => i = j
             /\ \A i \in 1..Len(out) :
                   out[i] = input[FirstWithUrl(input, out[i].url)]
             /\ \A i, j \in 1..Len(out) :
                   i < j => FirstWithUrl(input, out[i].url)
                              < FirstWithUrl(input, out[j].url)

\* C1 witness: three articles were built, two of them with one URL and
\* different titles, the duplicate coming last, and two were returned.
C1_Witness ==
    \E e \in EventsOf({"scrape_times_of_india"}) : \E now \in Clocks :
        LET input == NewsArticles(e.src.items, now)
        IN /\ ~SourceFailed(e)
           /\ Len(input) = 3
           /\ Len(e.batch) = 2
           /\ input[1].url = input[3].url
           /\ input[1] # input[3]
           /\ e.batch = <<input[1], input[2]>>

SegmentNames ==
    <<"india", "world", "sports", "business", "entertainment">>
CategoryNames ==
    <<"India News", "World News", "Sports", "Business", "Entertainment">>

\* C9 as claimed: an article whose URL contains /india/ is India News, /world/
\* World News, /sports/ Sports, /business/ Business, /entertainment/
\* Entertainment, and an article whose URL contains none of them is Other.
C9_CategoryPerSegment ==
    \A e \in EventsOf({"scrape_times_of_india"}) : \A i \in 1..Len(e.batch) :
        LET a == e.batch[i]
        IN /\ \A k \in 1..Len(SegmentNames) :
                 HasSegment(a.url, SegmentNames[k]) => a.category = CategoryNames[k]
           /\ (\A k \in 1..Len(SegmentNames) : ~HasSegment(a.url, SegmentNames[k]))
                 => a.category = "Other"

\* C9 amended: the category is that of the first of /india/, /world/,
\* /sports/, /business/, /entertainment/, in this order, that the URL
\* contains, and Other when it contains none; so a URL with /sports/ and with
\* neither /india/ nor /world/ is Sports.
C9_CategoryFirstSegment ==
    \A e \in EventsOf({"scrape_times_of_india"}) : \A i \in 1..Len(e.batch) :
        LET a == e.batch[i]
            hits == {k \in 1..Len(SegmentNames) : HasSegment(a.url, SegmentNames[k])}
        IN /\ hits = {} => a.category = "Other"
           /\ hits # {} =>
                a.category = CategoryNames[CHOOSE k \in hits : \A m \in hits : k <= m]
           /\ (HasSegment(a.url, "sports") /\ ~HasSegment(a.url, "india")
                 /\ ~HasSegment(a.url, "world")) => a.category = "Sports"

\* C9 witness: an article whose URL contains /sports/ and /india/ is
\* returned as India News beside one with /sports/ alone returned as Sports.
C9_Witness ==
    \E e \in EventsOf({"scrape_times_of_india"}) : \E i, j \in 1..Len(e.batch) :
        /\ HasSegment(e.batch[i].url, "sports")
        /\ HasSegment(e.batch[i].url, "india")
        /\ e.batch[i].category = "India News"
        /\ HasSegment(e.batch[j].url, "sports")
        /\ e.batch[j].category = "Sports"

\* C2 as claimed: a writer handed an empty batch returns False, opens no file
\* and leaves the file system as it was.
C2_EmptyBatchWriteFails ==
    \A e \in EventsOf(WriterOps) :
        e.batch = <<>> => (e.ok = FALSE /\ ~e.opened /\ e.kept /\ e.exc = NoExc)

\* the open or a write of the call fails: the file system refuses, or a row
\* does not fit (a key outside the header for DictWriter, a key the row reads
\* missing for the Times of India writer)
WriteFails(e) ==
    \/ e.src.openFails
    \/ e.src.failAt \in 1..(Len(e.batch) + 1)
    \/ /\ e.op = "save_to_csv"
       /\ \E i \in 1..Len(e.batch) : ~(DOMAIN e.batch[i] \subseteq DOMAIN e.batch[1])
    \/ /\ e.op = "toi_save_to_csv"
       /\ \E i \in 1..Len(e.batch) : ~(ToiKeys \subseteq DOMAIN e.batch[i])

\* C3: no exception leaves a writer; when the open or a write fails the
\* writer returns False; when it returns True the file holds the whole batch.
C3_WritersNeverRaise ==
    \A e \in EventsOf(WriterOps) :
        /\ e.exc = NoExc
        /\ WriteFails(e) => e.ok = FALSE
        /\ e.ok = TRUE =>
              /\ Exists(fs, e.target)
              /\ fs[e.target].complete
              /\ Len(fs[e.target].rows) = Len(e.batch)

\* C3 witness: RedditScraper.save_to_csv met a record with a key outside the
\* header on a file system that works, and returned False.
C3_Witness ==
    \E e \in EventsOf({"save_to_csv"}) :
        /\ e.src = IoOk
        /\ Len(e.batch) = 2
        /\ ~(DOMAIN e.batch[2] \subseteq DOMAIN e.batch[1])
        /\ e.ok = FALSE
        /\ e.exc = NoExc
        /\ e.opened

\* C4: no exception leaves a query, and a query whose source failed, at the
\* fetch or on any item, returns the empty list.
C4_FailureGivesEmptyBatch ==
    \A e \in EventsOf(QueryOps) :
        /\ e.exc = NoExc
        /\ SourceFailed(e) => e.batch = <<>>

\* C4 witness: a listing of two items failed on its second item, after the
\* first was normalised, and the query returned the empty list.
C4_Witness ==
    \E e \in EventsOf({"get_subreddit_posts"}) :
        /\ Len(e.src.items) = 2
        /\ e.src.failAt = 2
        /\ e.batch = <<>>
        /\ e.exc = NoExc

RECURSIVE ConcatBatches(_)
ConcatBatches(events) ==
    IF events = <<>> THEN <<>>
    ELSE Head(events).batch \o ConcatBatches(Tail(events))

\* C5: in choice 6, once the posts are fetched, the comments of every post
\* are asked for in turn whatever the earlier fetches did; a fetch whose
\* source failed gives no comment; and when some fetch gave comments, the
\* batch written as all comments is the fetches' results one after the other.
C5_PartialFailureGoesOn ==
    (choice = "6" /\ calls # <<>>) =>
        LET posts == calls[1].batch
            n == Len(posts)
            fetches == SubSeq(calls, 2, n + 1)
        IN /\ Len(calls) >= n + 1
           /\ \A i \in 1..n :
                 /\ calls[i + 1].op = "get_post_comments"
                 /\ calls[i + 1].target = posts[i].id
                 /\ calls[i + 1].exc = NoExc
                 /\ SourceFailed(calls[i + 1]) => calls[i + 1].batch = <<>>
           /\ ConcatBatches(fetches) # <<>> =>
                 /\ Len(calls) = n + 3
                 /\ calls[n + 3].op = "save_to_csv"
                 /\ calls[n + 3].batch = ConcatBatches(fetches)

\* C5 witness: two posts, the comment fetch of the first failed, that of the
\* second gave comments, and exactly those were written.
C5_Witness ==
    /\ choice = "6"
    /\ Len(calls) = 5
    /\ Len(calls[1].batch) = 2
    /\ SourceFailed(calls[2])
    /\ calls[2].batch = <<>>
    /\ calls[3].batch # <<>>
    /\ calls[5].batch = calls[3].batch

\* C6: when "both" is chosen, the batch is non-empty and is handed first to
\* save_to_csv and then to save_to_json, whatever save_to_csv returned.
C6_BothFormatsAttempted ==
    save_format = "both" =>
        /\ Len(calls) = 3
        /\ calls[1].batch # <<>>
        /\ calls[2].op = "save_to_csv"
        /\ calls[3].op = "save_to_json"
        /\ calls[2].batch = calls[1].batch
        /\ calls[3].batch = calls[1].batch

\* C6 witness: "both" was chosen, the CSV write failed and the JSON write was
\* made and succeeded.
C6_Witness ==
    /\ save_format = "both"
    /\ Len(calls) = 3
    /\ calls[2].op = "save_to_csv"
    /\ calls[2].ok = FALSE
    /\ calls[3].op = "save_to_json"
    /\ calls[3].ok = TRUE

\* C7 as claimed: no exception ends interactive_menu once the scraper is
\* built, and the loop is left only through choice 7.
C7_FailuresNonFatal ==
    /\ pc # "crashed"
    /\ pc = "exited" => choice = "7"

\* C8: when building the scraper failed, interactive_menu has returned, no
\* menu was shown, no query and no writer was called and no file was touched.
C8_ConstructionFailureFatal ==
    connect = "failed" =>
        /\ pc = "aborted"
        /\ calls = <<>>
        /\ choice = ""
        /\ steps = 0
        /\ fs \in {NoFiles, StaleFiles}

\* C8 witness: building the scraper failed and interactive_menu returned.
C8_Witness == connect = "failed" /\ pc = "aborted"

PostOps == {"get_subreddit_posts", "search_reddit", "get_user_posts"}

\* the raw text of an optional source field, '' standing for None
RawText(opt) == IF opt = None THEN <<>> ELSE opt[1]

\* field is raw cut to its first cap characters
IsCutTo(field, raw, cap) ==
    /\ Len(field) = Min(Len(raw), cap)
    /\ \A k \in 1..Len(field) : field[k] = raw[k]

\* the raw comment a comment record was made from
RawComment(e, record) ==
    CHOOSE c \in {e.src.items[k] : k \in 1..Len(e.src.items)} :
        c.id = record.comment_id

\* C10 as claimed: every selftext, comment body and subreddit description of
\* a record is its raw text cut to 500, 300 or 200 characters.
C10_EveryTextIsCut ==
    \A e \in EventsOf(QueryOps) : \A i \in 1..Len(e.batch) :
        \E cap \in {500, 300, 200} :
            CASE e.op \in PostOps ->
                   IsCutTo(e.batch[i].selftext,
                           RawText(e.src.items[i].selftext), cap)
              [] e.op = "get_post_comments" ->
                   IsCutTo(e.batch[i].body, RawComment(e, e.batch[i]).body, cap)
              [] e.op = "get_subreddit_info" ->
                   IsCutTo(e.batch[i].description,
                           e.src.items[i].description, cap)
              [] OTHER -> TRUE

\* C10 amended: the selftext of a post is its raw text cut to 500 characters
\* by get_subreddit_posts and to 300 by search_reddit and get_user_posts,
\* the description of a subreddit is cut to 500, and the body of a comment
\* is stored whole.
C10_TextCutPerKind ==
    \A e \in EventsOf(QueryOps) : \A i \in 1..Len(e.batch) :
        CASE e.op = "get_subreddit_posts" ->
               IsCutTo(e.batch[i].selftext,
                       RawText(e.src.items[i].selftext), 500)
          [] e.op \in {"search_reddit", "get_user_posts"} ->
               IsCutTo(e.batch[i].selftext,
                       RawText(e.src.items[i].selftext), 300)
          [] e.op = "get_subreddit_info" ->
               IsCutTo(e.batch[i].description, e.src.items[i].description, 500)
          [] e.op = "get_post_comments" ->
               e.batch[i].body = RawComment(e, e.batch[i]).body
          [] OTHER -> TRUE

\* C10 witness: get_subreddit_posts turned a selftext of 1000 characters into
\* one of 500.
C10_Witness ==
    \E e \in EventsOf({"get_subreddit_posts"}) : \E i \in 1..Len(e.batch) :
        /\ Len(RawText(e.src.items[i].selftext)) = 1000
        /\ Len(e.batch[i].selftext) = 500

\* the schema of the records a query yields
SchemaOf(op) ==
    CASE op = "get_subreddit_posts" -> PostFields
      [] op = "get_post_comments" -> CommentFields
      [] op = "search_reddit" -> SearchPostFields
      [] op = "get_user_posts" -> UserPostFields
      [] op = "get_subreddit_info" -> InfoFields
      [] OTHER -> ArticleFields

\* record is made from raw with every absent optional value defaulted
Defaulted(op, raw, record) ==
    /\ (op \in {"get_subreddit_posts", "search_reddit", "get_post_comments"}
          /\ raw.author = None) => record.author = "[deleted]"
    /\ (op \in PostOps /\ raw.selftext = None) => record.selftext = <<>>
    /\ (op = "get_subreddit_posts" /\ raw.link_flair_text = None)
          => record.flair = ""
    /\ (op \in {"get_subreddit_posts", "get_post_comments"}
          /\ raw.distinguished = None) => record.distinguished = ""

\* C11: the records of a batch handed to a writer all have one field set;
\* the records a query yields have exactly the field set of their kind; a
\* source that did not fail yields one record per post however many optional
\* values (author, selftext, flair, distinguished) are absent, and each absent
\* value appears as its default, '' or '[deleted]'.
C11_SchemaUniform ==
    /\ \A e \in EventsOf(WriterOps) : \A i, j \in 1..Len(e.batch) :
          DOMAIN e.batch[i] = DOMAIN e.batch[j]
    /\ \A e \in EventsOf(QueryOps) :
          /\ e.exc = NoExc
          /\ \A i \in 1..Len(e.batch) : DOMAIN e.batch[i] = SchemaOf(e.op)
          /\ (e.op \in PostOps /\ ~SourceFailed(e)) =>
                /\ Len(e.batch) = Len(e.src.items)
                /\ \A i \in 1..Len(e.batch) :
                      Defaulted(e.op, e.src.items[i], e.batch[i])
          /\ e.op = "get_post_comments" =>
                \A i \in 1..Len(e.batch) :
                   Defaulted(e.op, RawComment(e, e.batch[i]), e.batch[i])

\* C11 witness: a batch of two posts, the first with author, selftext, flair
\* and distinguished all absent and the second with an author, was fetched
\* and handed to a writer.
C11_Witness ==
    \E q \in EventsOf({"get_subreddit_posts"}), w \in EventsOf(WriterOps) :
        /\ Len(q.batch) = 2
        /\ w.batch = q.batch
        /\ q.src.items[1].author = None /\ q.src.items[1].selftext = None
        /\ q.src.items[1].link_flair_text = None
        /\ q.src.items[1].distinguished = None
        /\ q.src.items[2].author # None
        /\ q.batch[1].author = "[deleted]" /\ q.batch[1].flair = ""

\* C12: the deduplication pass of scrape_times_of_india applied to the list
\* the function returned gives that list back unchanged.
C12_DedupeIdempotent ==
    \A e \in EventsOf({"scrape_times_of_india"}) :
        RemoveDuplicates(e.batch) = e.batch

\* C12 witness: the pass dropped two of three articles built with one URL
\* from different anchors, and the list returned is not empty.
C12_Witness ==
    \E e \in EventsOf({"scrape_times_of_india"}) : \E now \in Clocks :
        LET input == NewsArticles(e.src.items, now)
        IN /\ ~SourceFailed(e)
           /\ Len(input) = 3
           /\ Len(e.batch) = 1
           /\ input[1] # input[2]
           /\ RemoveDuplicates(input) = e.batch

\* C13: in choice 6 the one post fetch is the first call; the calls after it
\* are one comment fetch per fetched post, in the order of the posts; every
\* write comes after every fetch; and the batch written as all comments is
\* the fetches' results joined in that order.
C13_CompositeSequenced ==
    (choice = "6" /\ calls # <<>>) =>
        LET posts == calls[1].batch
            n == Len(posts)
            At(ops) == {k \in 1..Len(calls) : calls[k].op \in ops}
        IN /\ At({"get_subreddit_posts"}) = {1}
           /\ At({"get_post_comments"}) = 2..(n + 1)
           /\ \A i \in 1..n : calls[i + 1].target = posts[i].id
           /\ \A k \in At(WriterOps) : \A m \in At(QueryOps) : m < k
           /\ \A k \in At(WriterOps) :
                 calls[k].target = calls[1].target \o "_all_comments.csv" =>
                    calls[k].batch = ConcatBatches(SubSeq(calls, 2, n + 1))

\* C13 witness: two posts were fetched, the comments of each were fetched
\* and found, and the two files were written after that.
C13_Witness ==
    /\ choice = "6"
    /\ Len(calls) = 5
    /\ Len(calls[1].batch) = 2
    /\ calls[2].target = "p1" /\ calls[2].batch # <<>>
    /\ calls[3].target = "p2" /\ calls[3].batch # <<>>
    /\ calls[4].op = "save_to_csv" /\ calls[4].batch = calls[1].batch
    /\ calls[5].op = "save_to_csv"
    /\ calls[5].batch = calls[2].batch \o calls[3].batch
    /\ calls[5].ok

\* C14 as claimed: in choice 6 a non-empty batch of posts is handed to a
\* writer, whatever the comment fetches returned.
C14_PostsAlwaysPersisted ==
    (choice = "6" /\ calls # <<>> /\ calls[1].batch # <<>>) =>
        \E w \in EventsOf(WriterOps) : w.batch = calls[1].batch

\* the writer calls among the calls cs
WriterCalls(cs) == {k \in 1..Len(cs) : cs[k].op \in WriterOps}

\* the calls cs of a handler hold a query whose result leaves nothing to
\* write: the first query gave no record or, in choice 6, no post had a comment
NothingFetched(cs, ch) ==
    /\ cs # <<>>
    /\ cs[1].op \in QueryOps
    /\ \/ cs[1].batch = <<>>
       \/ ch = "6" /\ ConcatBatches(SubSeq(cs, 2, Len(cs[1].batch) + 1)) = <<>>

\* C15: in every menu action and in the main of the news script no writer is
\* called with an empty batch, and a handler whose query gave no record,
\* by a failure of the source or by an empty answer, calls no writer and
\* leaves every file as it was.
C15_NoEmptyWrite ==
    /\ [](\A k \in WriterCalls(calls) : calls[k].batch # <<>>)
    /\ [](NothingFetched(calls, choice) => WriterCalls(calls) = {})
    /\ [][NothingFetched(calls', choice') => fs' = fs]_vars

\* C15 witness: choice 1 ran on a source that failed, the query gave no
\* record, no writer was called and the file of an earlier run is in place.
C15_Witness ==
    /\ choice = "1"
    /\ Len(calls) = 1
    /\ SourceFailed(calls[1])
    /\ calls[1].batch = <<>>
    /\ fs = StaleFiles

====
